---- MODULE Spec2Model ----
(***************************************************************************)
(* The LAMMPS text trajectory reader of dsf.trajectory_reader              *)
(* (lammpstrj_trajectory_reader) as a state machine: one reader object,    *)
(* its file handle, and a caller that issues next() and close() in any     *)
(* order.                                                                  *)
(*                                                                         *)
(* Conventions of the model:                                               *)
(*   - a text line is a record (see Line); numbers of the file are         *)
(*     integers; a float product with a configured factor is an exact      *)
(*     rational <<numerator, denominator>>;                                *)
(*   - cols.index(k) is kept 0-based as in the source, and stored as       *)
(*     index + 1 so that 0 can stand for the Python value None;            *)
(*   - a 3xN numpy array is the sequence of its N columns, each a          *)
(*     sequence of 3 numbers; array column c (0-based) is element c + 1;   *)
(*   - None (for an array or an index array) is the empty sequence.        *)
(***************************************************************************)
EXTENDS Integers, Sequences, FiniteSets, TLC

\* ---------------------------------------------------------------------
\* Bounds of the explored inputs
\* ---------------------------------------------------------------------
\* the largest number of chunks (frames or defects) in a trajectory file
MaxFrames == 2
\* the largest NUMBER OF ATOMS a generated frame declares
MaxAtoms == 2

None == <<>>

\* ---------------------------------------------------------------------
\* Text lines of the trajectory file
\* ---------------------------------------------------------------------
\* k: "item" (matches _item_re), "nums" (whitespace separated numbers),
\*    "blank" (only whitespace), "junk" (any other non-blank text)
Line(k, name, cols, v) == [k |-> k, name |-> name, cols |-> cols, v |-> v]
ItemLine(name, rest) == Line("item", name, rest, <<>>)
NumLine(v) == Line("nums", "", <<>>, v)
BlankLine == Line("blank", "", <<>>, <<>>)
JunkLine == Line("junk", "", <<>>, <<>>)

\* ---------------------------------------------------------------------
\* Small helpers
\* ---------------------------------------------------------------------
Range(s) == {s[i] : i \in DOMAIN s}

\* cols.index(k) + 1, or 0 when k is not in cols
IndexOf(cols, k) ==
    IF k \in Range(cols)
    THEN CHOOSE i \in DOMAIN cols : cols[i] = k /\ \A j \in 1..(i - 1) : cols[j] # k
    ELSE 0

\* an exact rational product factor * n, factor = <<num, den>>
Times(factor, n) == <<factor[1] * n, factor[2]>>
\* the quotient a / b and the equality of two rationals
RatDiv(a, b) == <<a[1] * b[2], a[2] * b[1]>>
RatEq(a, b) == a[1] * b[2] = b[1] * a[2]

\* ---------------------------------------------------------------------
\* Reading and parsing lines (lines 67, 78, 80, 82, 136, 158)
\* ---------------------------------------------------------------------
\* a variant of AtEof that takes the last line of the file for its end
AtEof_Early(lines, pos) == pos + 1 >= Len(lines)

\* self._fh.readline() on an open file returns '' (line 70) once every
\* line has been read. pos is the number of lines consumed so far.
AtEof(lines, pos) == pos >= Len(lines)

\* int(self._fh.readline()): only a line holding one number parses; '' (end
\* of stream), a blank line, an ITEM line or other text raise ValueError.
\* The line read is consumed either way.
ReadInt(lines, pos) ==
    IF AtEof(lines, pos)
    THEN [ok |-> FALSE, pos |-> pos, v |-> 0]
    ELSE LET L == lines[pos + 1] IN
         IF L.k = "nums" /\ Len(L.v) = 1
         THEN [ok |-> TRUE, pos |-> pos + 1, v |-> L.v[1]]
         ELSE [ok |-> FALSE, pos |-> pos + 1, v |-> 0]

\* a variant of ReadRows that takes every row missing at the end of the
\* stream for a row of zeros as wide as the last line of the file
RECURSIVE ReadRows_PadMissing(_, _, _)
ReadRows_PadMissing(lines, pos, n) ==
    IF n <= 0 THEN [ok |-> TRUE, pos |-> pos, rows |-> <<>>]
    ELSE IF AtEof(lines, pos)
    THEN LET rest == ReadRows_PadMissing(lines, pos, n - 1)
             w == IF pos >= 1 /\ lines[pos].k = "nums" THEN Len(lines[pos].v) ELSE 0
         IN  [rest EXCEPT !.rows = <<[i \in 1..w |-> 0]>> \o rest.rows]
    ELSE LET L == lines[pos + 1] IN
         IF L.k \in {"item", "junk"}
         THEN [ok |-> FALSE, pos |-> pos + 1, rows |-> <<>>]
         ELSE LET rest == ReadRows_PadMissing(lines, pos + 1, n - 1) IN
              [rest EXCEPT !.rows = <<L.v>> \o rest.rows]

\* [map(float, self._fh.readline().split()) for _ in range(n)]: '' and a
\* blank line give the empty list, text that is no number raises ValueError
\* (and the rows after it are not read).
RECURSIVE ReadRows(_, _, _)
ReadRows(lines, pos, n) ==
    IF n <= 0 THEN [ok |-> TRUE, pos |-> pos, rows |-> <<>>]
    ELSE IF AtEof(lines, pos)
    THEN LET rest == ReadRows(lines, pos, n - 1) IN
         [rest EXCEPT !.rows = <<None>> \o rest.rows]
    ELSE LET L == lines[pos + 1] IN
         IF L.k \in {"item", "junk"}
         THEN [ok |-> FALSE, pos |-> pos + 1, rows |-> <<>>]
         ELSE LET rest == ReadRows(lines, pos + 1, n - 1) IN
              [rest EXCEPT !.rows = <<L.v>> \o rest.rows]

\* whether array(rows) is two-dimensional, and its number of columns: rows
\* of unequal length give a one-dimensional object array, no row at all
\* gives an array of shape (0,)
Is2D(rows) == Len(rows) >= 1 /\ \A i \in DOMAIN rows : Len(rows[i]) = Len(rows[1])
Width(rows) == IF Is2D(rows) THEN Len(rows[1]) ELSE 0

\* ---------------------------------------------------------------------
\* The simulation box (lines 81-91)
\* ---------------------------------------------------------------------
\* a variant of BoxMatrix that puts the tilt factors above the diagonal
BoxMatrix_Upper(rows) ==
    LET d(i) == rows[i][2] - rows[i][1]
        tilt == Width(rows) = 3
    IN  << <<d(1), IF tilt THEN rows[1][3] ELSE 0, IF tilt THEN rows[2][3] ELSE 0>>,
           <<0, d(2), IF tilt THEN rows[3][3] ELSE 0>>,
           <<0, 0, d(3)>> >>

\* np.diag(x[:, 1] - x[:, 0]) with the tilt factors of a 3x3 input placed
\* below the diagonal; rows of the result are the box vectors
BoxMatrix(rows) ==
    LET d(i) == rows[i][2] - rows[i][1]
        tilt == Width(rows) = 3
    IN  << <<d(1), 0, 0>>,
           <<IF tilt THEN rows[1][3] ELSE 0, d(2), 0>>,
           <<IF tilt THEN rows[2][3] ELSE 0, IF tilt THEN rows[3][3] ELSE 0, d(3)>> >>

\* a variant of BoxError without the test of the shape (line 90)
BoxError_NoShapeTest(rows) ==
    IF ~Is2D(rows) \/ Width(rows) < 2 THEN "IndexError" ELSE ""

\* the exception the three rows raise, "" when the box is built:
\* x[:, 1] fails with IndexError unless x is two-dimensional with two or
\* more columns; a shape other than (3, 2) and (3, 3) raises IOError
BoxError(rows) ==
    IF ~Is2D(rows) \/ Width(rows) < 2 THEN "IndexError"
    ELSE IF Width(rows) \in {2, 3} THEN ""
    ELSE "IOError"

\* ---------------------------------------------------------------------
\* _read_frame_header (lines 65-95)
\* ---------------------------------------------------------------------
\* a variant of NewHeader in which step, natoms and box start with values
NewHeader_Defaults(pos) ==
    [exc |-> "", pos |-> pos, eof |-> FALSE,
     step |-> <<0>>, natoms |-> <<1>>,
     box |-> <<BoxMatrix(<< <<0, 1>>, <<0, 1>>, <<0, 1>> >>)>>, cols |-> <<>>]

\* The locals of one call: step, natoms and box are unbound (None here)
\* until their ITEM is read. exc is the exception raised ("" for a normal
\* return), eof says the end of stream was met while awaiting an ITEM.
NewHeader(pos) ==
    [exc |-> "", pos |-> pos, eof |-> FALSE,
     step |-> None, natoms |-> None, box |-> None, cols |-> <<>>]

Raise(h, exc, pos) == [h EXCEPT !.exc = exc, !.pos = pos]

\* a variant of IsBlank that takes any text that is no ITEM line for blank
IsBlank_AnyText(L) == L.k \in {"blank", "junk"}

\* L.strip() == '' (line 74): the line holds nothing but whitespace
IsBlank(L) == L.k = "blank"

RECURSIVE HeaderLoop(_, _)
HeaderLoop(lines, h) ==
    IF AtEof(lines, h.pos)
    THEN [h EXCEPT !.exc = "StopIteration", !.eof = TRUE]
    ELSE
    LET L == lines[h.pos + 1]
        p == h.pos + 1
    IN  IF L.k # "item"
        THEN IF IsBlank(L) THEN HeaderLoop(lines, [h EXCEPT !.pos = p])
             ELSE Raise(h, "IOError", p)
        ELSE IF L.name = "TIMESTEP"
        THEN LET r == ReadInt(lines, p) IN
             IF r.ok THEN HeaderLoop(lines, [h EXCEPT !.pos = r.pos, !.step = <<r.v>>])
             ELSE Raise(h, "ValueError", r.pos)
        ELSE IF L.name = "NUMBER OF ATOMS"
        THEN LET r == ReadInt(lines, p) IN
             IF r.ok THEN HeaderLoop(lines, [h EXCEPT !.pos = r.pos, !.natoms = <<r.v>>])
             ELSE Raise(h, "ValueError", r.pos)
        ELSE IF L.name = "BOX BOUNDS"
        THEN LET r == ReadRows(lines, p, 3) IN
             IF ~r.ok THEN Raise(h, "ValueError", r.pos)
             ELSE IF BoxError(r.rows) # "" THEN Raise(h, BoxError(r.rows), r.pos)
             ELSE HeaderLoop(lines, [h EXCEPT !.pos = r.pos, !.box = <<BoxMatrix(r.rows)>>])
        ELSE \* "ATOMS": return (step, natoms, box, cols)
             IF h.step = None \/ h.natoms = None \/ h.box = None
             THEN Raise(h, "UnboundLocalError", p)
             ELSE [h EXCEPT !.pos = p, !.cols = L.cols]

\* readline() on a closed file raises ValueError before anything is read
ReadFrameHeader(f) ==
    IF f.closed THEN Raise(NewHeader(f.pos), "ValueError", f.pos)
    ELSE HeaderLoop(f.lines, NewHeader(f.pos))

\* ---------------------------------------------------------------------
\* Column layout (lines 105-134)
\* ---------------------------------------------------------------------
AllInCols(cols, keys) == \A k \in Range(keys) : k \in Range(cols)

\* a variant of CoordTriple that looks for (x, y, z) first
CoordTriple_WrappedFirst(cols) ==
    IF AllInCols(cols, <<"id", "x", "y", "z">>) THEN <<"x", "y", "z">>
    ELSE IF AllInCols(cols, <<"id", "xu", "yu", "zu">>) THEN <<"xu", "yu", "zu">>
    ELSE IF AllInCols(cols, <<"id", "xs", "ys", "zs">>) THEN <<"xs", "ys", "zs">>
    ELSE None

\* a variant of CoordTriple whose test of the wrapped triple leaves z out
CoordTriple_NoZ(cols) ==
    IF AllInCols(cols, <<"id", "xu", "yu", "zu">>) THEN <<"xu", "yu", "zu">>
    ELSE IF AllInCols(cols, <<"id", "x", "y">>) THEN <<"x", "y", "y">>
    ELSE IF AllInCols(cols, <<"id", "xs", "ys", "zs">>) THEN <<"xs", "ys", "zs">>
    ELSE None

\* the coordinate triple chosen by the if/elif chain of lines 112-123,
\* None when the chain ends in the RuntimeError
CoordTriple(cols) ==
    IF AllInCols(cols, <<"id", "xu", "yu", "zu">>) THEN <<"xu", "yu", "zu">>
    ELSE IF AllInCols(cols, <<"id", "x", "y", "z">>) THEN <<"x", "y", "z">>
    ELSE IF AllInCols(cols, <<"id", "xs", "ys", "zs">>) THEN <<"xs", "ys", "zs">>
    ELSE None

\* array(map(cols.index, keys)), each index stored + 1
IndexArray(cols, keys) == [i \in DOMAIN keys |-> IndexOf(cols, keys[i])]

\* a variant of XMap that takes the first extent for every component
XMap_FirstExtent(cols, box) ==
    IF CoordTriple(cols) = <<"xs", "ys", "zs">>
    THEN <<box[1][1], box[1][1], box[1][1]>>
    ELSE None

\* _x_map: None, or the diagonal of the box captured by the lambda
XMap(cols, box) ==
    IF CoordTriple(cols) = <<"xs", "ys", "zs">>
    THEN <<box[1][1], box[2][2], box[3][3]>>
    ELSE None

\* _v_I (lines 126-129)
VelocityIndex(cols) ==
    IF AllInCols(cols, <<"vx", "vy", "vz">>)
    THEN IndexArray(cols, <<"vx", "vy", "vz">>)
    ELSE None

\* ---------------------------------------------------------------------
\* Atom data (lines 136-148 and 158-166)
\* ---------------------------------------------------------------------
Zeros(n) == [c \in 1..n |-> <<0, 0, 0>>]

\* data[:, idx].transpose(): one column of three numbers per data row
Take(data, idx) == [j \in DOMAIN data |-> [i \in 1..3 |-> data[j][idx[i]]]]

\* the data rows have every column that idx names
HasColumns(data, idx) == Is2D(data) /\ \A i \in DOMAIN idx : idx[i] <= Width(data)

\* self._x_map(xs): xs * _x_factor, the box diagonal per component
ApplyXMap(xmap, vals) ==
    IF xmap = None THEN vals
    ELSE [j \in DOMAIN vals |-> [i \in 1..3 |-> vals[j][i] * xmap[i]]]

\* a variant of SortRanks that keeps the order of the file
SortRanks_FileOrder(ids) == {[j \in DOMAIN ids |-> j - 1]}

\* I[np.argsort(I)] = arange(len(I)): every row gets the rank of its
\* identifier (0-based). argsort orders equal identifiers in a way numpy
\* does not promise, so each order of equal identifiers is a result.
SortRanks(ids) ==
    {I \in [DOMAIN ids -> 0..(Len(ids) - 1)] :
        /\ \A i, j \in DOMAIN ids : i # j => I[i] # I[j]
        /\ \A i, j \in DOMAIN ids : ids[i] < ids[j] => I[i] < I[j]}

\* I = ids - 1 (line 160)
DirectRanks(ids) == [j \in DOMAIN ids |-> ids[j] - 1]

\* numpy accepts a column index c with -n <= c < n, a negative one
\* counting from the end
ValidIndex(I, n) == \A j \in DOMAIN I : -n <= I[j] /\ I[j] < n
Wrap(c, n) == IF c < 0 THEN c + n ELSE c

\* arr[:, I] = vals: data row j goes to column I[j]; when two rows name the
\* same column the later row stays
Scatter(arr, I, vals) ==
    [c \in DOMAIN arr |->
        LET js == {j \in DOMAIN I : Wrap(I[j], Len(arr)) = c - 1} IN
        IF js = {} THEN arr[c]
        ELSE vals[CHOOSE j \in js : \A k \in js : k <= j]]

\* ---------------------------------------------------------------------
\* _get_first and _get_next (lines 97-166)
\* ---------------------------------------------------------------------
\* How a call of _get_first or _get_next ends: the reader's fields as the
\* call leaves them, the lines consumed, the exception raised ("" when it
\* returns), whether the end of stream was met awaiting an ITEM, and the
\* column index array I when the call computed one.
Outcome(self, pos, exc, eof, I) ==
    [self |-> self, pos |-> pos, exc |-> exc, eof |-> eof, I |-> I]

\* The writes into the buffers once I is known (lines 141-148, 161-166).
\* fresh: the buffers are allocated anew (first frame) or reused.
Store(self, data, I, fresh) ==
    LET n  == self._natoms
        s1 == IF fresh THEN [self EXCEPT !._x = Zeros(n)] ELSE self
    IN  IF ~HasColumns(data, self._x_I) \/ ~ValidIndex(I, Len(s1._x))
        THEN [self |-> s1, exc |-> "IndexError"]
        ELSE
        LET s2 == [s1 EXCEPT !._x = Scatter(s1._x, I,
                                  ApplyXMap(self._x_map, Take(data, self._x_I)))]
        IN  IF self._v_I = None THEN [self |-> s2, exc |-> ""]
            ELSE
            LET s3 == IF fresh THEN [s2 EXCEPT !._v = Zeros(n)] ELSE s2 IN
            IF ~HasColumns(data, self._v_I) \/ ~ValidIndex(I, Len(s3._v))
            THEN [self |-> s3, exc |-> "IndexError"]
            ELSE [self |-> [s3 EXCEPT !._v = Scatter(s3._v, I, Take(data, self._v_I))],
                  exc |-> ""]

\* the identifier column of the data rows (line 138, line 160)
Identifiers(data, id_I) == [j \in DOMAIN data |-> data[j][id_I]]

\* _get_first: the set of ways the call can end (one, unless identifiers
\* repeat)
GetFirst(self, f) ==
    LET h == ReadFrameHeader(f) IN
    IF h.exc # "" THEN {Outcome(self, h.pos, h.exc, h.eof, None)}
    ELSE
    LET N    == h.natoms[1]
        cols == h.cols
        s1   == [self EXCEPT !._natoms = N, !._step = h.step[1], !._cols = cols,
                             !._box = h.box[1], !._x_map = None]
    IN  IF CoordTriple(cols) = None
        THEN {Outcome(s1, h.pos, "RuntimeError", FALSE, None)}
        ELSE
        LET s2 == [s1 EXCEPT !._x_I = IndexArray(cols, CoordTriple(cols)),
                             !._x_map = XMap(cols, h.box[1]),
                             !._id_I = IndexOf(cols, "id"),
                             !._v_I = VelocityIndex(cols),
                             !._type_I = IndexOf(cols, "type")]
            rd == ReadRows(f.lines, h.pos, N)
        IN  IF ~rd.ok THEN {Outcome(s2, rd.pos, "ValueError", FALSE, None)}
            ELSE IF ~HasColumns(rd.rows, <<s2._id_I>>)
            THEN {Outcome(s2, rd.pos, "IndexError", FALSE, None)}
            ELSE {LET st == Store(s2, rd.rows, I, TRUE)
                  IN  Outcome(st.self, rd.pos, st.exc, FALSE, I) :
                      I \in SortRanks(Identifiers(rd.rows, s2._id_I))}

\* _get_next
GetNext(self, f) ==
    LET h == ReadFrameHeader(f) IN
    IF h.exc # "" THEN {Outcome(self, h.pos, h.exc, h.eof, None)}
    ELSE IF self._natoms # h.natoms[1] \/ self._cols # h.cols
    THEN {Outcome(self, h.pos, "AssertionError", FALSE, None)}
    ELSE
    LET s1 == [self EXCEPT !._step = h.step[1], !._box = h.box[1]]
        rd == ReadRows(f.lines, h.pos, h.natoms[1])
    IN  IF ~rd.ok THEN {Outcome(s1, rd.pos, "ValueError", FALSE, None)}
        ELSE IF ~HasColumns(rd.rows, <<s1._id_I>>)
        THEN {Outcome(s1, rd.pos, "IndexError", FALSE, None)}
        ELSE LET I  == DirectRanks(Identifiers(rd.rows, s1._id_I))
                 st == Store(s1, rd.rows, I, FALSE)
             IN  {Outcome(st.self, rd.pos, st.exc, FALSE, I)}

\* ---------------------------------------------------------------------
\* Frames (lines 184-197)
\* ---------------------------------------------------------------------
ScaleArray(factor, arr) == [c \in DOMAIN arr |-> [i \in DOMAIN arr[c] |-> Times(factor, arr[c][i])]]

\* the value a call that returns no frame leaves in the ghost `outcome`
NoFrame == [index |-> 0, N |-> 0, box |-> None, time |-> <<0, 1>>, x |-> None, v |-> None]

\* a variant of MakeFrame that numbers the frame by its TIMESTEP
MakeFrame_StepIndex(self) ==
    [index |-> self._step,
     N     |-> self._natoms,
     box   |-> ScaleArray(self.x_factor, self._box),
     time  |-> Times(self.t_factor, self._step),
     x     |-> ScaleArray(self.x_factor, self._x),
     v     |-> IF self._v_I # None THEN ScaleArray(self.v_factor, self._v) ELSE None]

\* a variant of MakeFrame that scales the velocities like the positions
MakeFrame_VelocityByLength(self) ==
    [index |-> self._index,
     N     |-> self._natoms,
     box   |-> ScaleArray(self.x_factor, self._box),
     time  |-> Times(self.t_factor, self._step),
     x     |-> ScaleArray(self.x_factor, self._x),
     v     |-> IF self._v_I # None THEN ScaleArray(self.x_factor, self._v) ELSE None]

\* the dict next() returns; the products are new arrays
MakeFrame(self) ==
    [index |-> self._index,
     N     |-> self._natoms,
     box   |-> ScaleArray(self.x_factor, self._box),
     time  |-> Times(self.t_factor, self._step),
     x     |-> ScaleArray(self.x_factor, self._x),
     v     |-> IF self._v_I # None THEN ScaleArray(self.v_factor, self._v) ELSE None]

\* ---------------------------------------------------------------------
\* next and close (lines 171-197)
\* ---------------------------------------------------------------------
\* variants of EndOfStream: one leaves _open set, one leaves the file open
EndOfStream_KeepOpen(self, f) ==
    [self |-> self, fh |-> [f EXCEPT !.closed = TRUE], closes |-> 1]

EndOfStream_NoClose(self, f) ==
    [self |-> [self EXCEPT !._open = FALSE], fh |-> f, closes |-> 0]

\* lines 70-73: at the end of the stream the reader closes its file and
\* clears _open before it raises StopIteration
EndOfStream(self, f) ==
    [self |-> [self EXCEPT !._open = FALSE],
     fh   |-> [f EXCEPT !.closed = TRUE],
     closes |-> 1]

\* which of the two readers next() runs (lines 179-182)
ReadFrame(self, f) ==
    IF self._first_called THEN GetNext(self, f) ELSE GetFirst(self, f)

\* the ways one call of next() can end: the reader and the file after the
\* call, what the caller receives (kind: "frame" or the exception), how
\* often the call closed the file, and the index array it computed
NextResults(self, f) ==
    IF ~self._open
    THEN {[self |-> self, fh |-> f, kind |-> "StopIteration", frame |-> NoFrame,
           closes |-> 0, I |-> None]}
    ELSE {LET g == [f EXCEPT !.pos = o.pos] IN
          IF o.eof
          THEN LET e == EndOfStream(o.self, g) IN
               [self |-> e.self, fh |-> e.fh, kind |-> "StopIteration",
                frame |-> NoFrame, closes |-> e.closes, I |-> None]
          ELSE IF o.exc # ""
          THEN [self |-> o.self, fh |-> g, kind |-> o.exc, frame |-> NoFrame,
                closes |-> 0, I |-> o.I]
          ELSE [self |-> [o.self EXCEPT !._index = @ + 1], fh |-> g, kind |-> "frame",
                frame |-> MakeFrame(o.self), closes |-> 0, I |-> o.I] :
          o \in ReadFrame(self, f)}

\* a variant of CloseResult without the test of _fh.closed
CloseResult_Unguarded(f) == [fh |-> [f EXCEPT !.closed = TRUE], closes |-> 1]

\* close(): the file is closed unless it is closed already
CloseResult(f) ==
    IF ~f.closed THEN [fh |-> [f EXCEPT !.closed = TRUE], closes |-> 1]
    ELSE [fh |-> f, closes |-> 0]

\* ---------------------------------------------------------------------
\* The trajectory files explored
\* ---------------------------------------------------------------------
\* A file is a sequence of chunks. The first chunk is a frame described by
\* a parameter record p = [n, ids, cols, box]; every later chunk is that
\* frame again, with later data, varied in at most one respect (Kinds).
LStd       == <<"id", "type", "x", "y", "z">>
LVel       == <<"id", "type", "x", "y", "z", "vx", "vy", "vz">>
LScaled    == <<"id", "xs", "ys", "zs">>
LUnwrapped == <<"x", "y", "z", "id", "xu", "yu", "zu">>
LNoId      == <<"type", "x", "y", "z">>
LNoZ       == <<"id", "x", "y">>
Layouts    == {LStd, LVel, LScaled, LUnwrapped, LNoId, LNoZ}

ColCode(name) ==
    CASE name = "x" -> 1 [] name = "y" -> 2 [] name = "z" -> 3
      [] name = "xu" -> 4 [] name = "yu" -> 5 [] name = "zu" -> 6
      [] name = "xs" -> 7 [] name = "ys" -> 8 [] name = "zs" -> 9
      [] name = "vx" -> 10 [] name = "vy" -> 11 [] name = "vz" -> 12
      [] OTHER -> 0

\* the number in column `name` of the data line of atom `id` in chunk f
Cell(name, id, f) ==
    IF name = "id" THEN id
    ELSE IF name = "type" THEN 1
    ELSE 1000 * f + 20 * id + ColCode(name)

AtomLine(cols, id, f) == NumLine([i \in DOMAIN cols |-> Cell(cols[i], id, f)])

\* the three BOX BOUNDS rows of chunk f: extents 10a + f on axis a, and for
\* a triclinic box the tilt factors xy, xz, yz
BoxRows(box, f) ==
    [a \in 1..3 |->
        NumLine(IF box = "tri" THEN <<a, 11 * a + f, a + f>>
                ELSE IF box = "four" THEN <<a, 11 * a + f, a + f, 0>>
                ELSE <<a, 11 * a + f>>)]

\* TIMESTEP values: rising with the frames, or falling
StepOf(steps, f) == IF steps = "up" THEN 100 * f ELSE 50 - 10 * f

\* the header of chunk f and its atom lines
HeaderLines(p, steps, f) ==
    <<ItemLine("TIMESTEP", <<>>), NumLine(<<StepOf(steps, f)>>),
      ItemLine("NUMBER OF ATOMS", <<>>), NumLine(<<p.n>>),
      ItemLine("BOX BOUNDS", <<"pp", "pp", "pp">>)>>
    \o BoxRows(p.box, f)
    \o <<ItemLine("ATOMS", p.cols)>>

AtomLines(p, f) == [j \in DOMAIN p.ids |-> AtomLine(p.cols, p.ids[j], f)]

FrameLines(p, steps, f) == HeaderLines(p, steps, f) \o AtomLines(p, f)

Reverse(s) == [i \in DOMAIN s |-> s[Len(s) + 1 - i]]
MaxOf(s) == IF s = <<>> THEN 0 ELSE CHOOSE m \in Range(s) : \A v \in Range(s) : v <= m

Kinds == {"same", "reversed", "renumbered", "more", "fewer", "cols",
          "junk", "blank", "truncated", "no_timestep", "bad_box", "bad_count"}

\* chunk f of a file whose frames follow p, varied as `kind` says
Chunk(p, steps, kind, f) ==
    CASE kind = "same" -> FrameLines(p, steps, f)
      [] kind = "reversed" -> FrameLines([p EXCEPT !.ids = Reverse(@)], steps, f)
      [] kind = "renumbered" ->
            FrameLines([p EXCEPT !.ids = [j \in DOMAIN @ |-> @[j] + 1]], steps, f)
      [] kind = "more" ->
            FrameLines([p EXCEPT !.n = @ + 1, !.ids = Append(@, MaxOf(@) + 1)], steps, f)
      [] kind = "fewer" ->
            FrameLines([p EXCEPT !.n = IF @ > 0 THEN @ - 1 ELSE 0,
                                 !.ids = IF @ = <<>> THEN @ ELSE Tail(@)], steps, f)
      [] kind = "cols" ->
            FrameLines([p EXCEPT !.cols = IF @ = LStd THEN LVel ELSE LStd], steps, f)
      [] kind = "junk" -> <<JunkLine>>
      [] kind = "blank" -> <<BlankLine>>
      [] kind = "truncated" ->
            LET fl == FrameLines(p, steps, f) IN SubSeq(fl, 1, Len(fl) - 1)
      [] kind = "no_timestep" ->
            LET fl == FrameLines(p, steps, f) IN SubSeq(fl, 3, Len(fl))
      [] kind = "bad_box" -> FrameLines([p EXCEPT !.box = "four"], steps, f)
      [] kind = "bad_count" ->
            LET fl == FrameLines(p, steps, f) IN
            [i \in DOMAIN fl |-> IF i = 4 THEN JunkLine ELSE fl[i]]

RECURSIVE Chunks(_, _, _, _)
Chunks(p, steps, kinds, f) ==
    IF f > Len(kinds) THEN <<>>
    ELSE Chunk(p, steps, kinds[f], f) \o Chunks(p, steps, kinds, f + 1)

\* identifier sequences of n atom lines: every order of 1..n, every order
\* of the sparse identifiers 3, 5, .., and n times the identifier 1
Orders(S) == {s \in [1..Cardinality(S) -> S] : \A i, j \in DOMAIN s : i # j => s[i] # s[j]}
IdOrders(n) ==
    Orders(1..n) \cup Orders({2 * i + 1 : i \in 1..n}) \cup {[j \in 1..n |-> 1]}

StdParams == [n |-> 1, ids |-> <<1>>, cols |-> LStd, box |-> "ortho"]

\* the first frames: every identifier order under the two usual layouts,
\* every layout with the identifiers 1..n in order, and a triclinic box
\* under the usual and the scaled layout
FirstParams ==
    {[n |-> Len(ids), ids |-> ids, cols |-> cols, box |-> "ortho"] :
        ids \in UNION {IdOrders(m) : m \in 0..MaxAtoms}, cols \in {LStd, LVel}}
    \cup {[n |-> n, ids |-> [j \in 1..n |-> j], cols |-> cols, box |-> "ortho"] :
        n \in 1..MaxAtoms, cols \in Layouts}
    \cup {[n |-> n, ids |-> [j \in 1..n |-> j], cols |-> cols, box |-> "tri"] :
        n \in 1..MaxAtoms, cols \in {LStd, LScaled}}

KindSeqs == UNION {[1..k -> Kinds] : k \in 0..MaxFrames}

\* every first frame followed by any later chunks, and the plain one-atom
\* frame with any chunks before and after it
Files(steps) ==
    {Chunks(p, steps, ks, 1) :
        p \in FirstParams,
        ks \in {k \in KindSeqs : k = <<>> \/ k[1] = "same"}}
    \cup {Chunks(StdParams, steps, ks, 1) : ks \in KindSeqs}

\* files of whole frames only
PlainFiles(steps) ==
    {Chunks(p, steps, [i \in 1..k |-> "same"], 1) : p \in FirstParams, k \in 0..MaxFrames}

\* construction arguments (line 34): the defaults x_factor = 0.1 and
\* t_factor = 1.0, and another pair
DefaultConfig == [x_factor |-> <<1, 10>>, t_factor |-> <<1, 1>>]
OtherConfig == [x_factor |-> <<2, 1>>, t_factor |-> <<1, 2>>]

\* the readers explored: every file under the default factors, and the
\* files of whole frames under the other factors and falling TIMESTEPs
Inputs ==
    {[cfg |-> DefaultConfig, lines |-> l] : l \in Files("up")}
    \cup {[cfg |-> OtherConfig, lines |-> l] : l \in PlainFiles("down")}

\* ---------------------------------------------------------------------
\* Files that vary one part of the format in every way
\* ---------------------------------------------------------------------
\* MaxFrames whole frames after p
WholeFrames(p) == Chunks(p, "up", [i \in 1..MaxFrames |-> "same"], 1)

\* every list of coordinate columns, with and without id, in two orders
ColumnNames == <<"id", "x", "y", "z", "xu", "yu", "zu", "xs", "ys", "zs">>
ColumnLists ==
    {SelectSeq(names, LAMBDA c : c \in S) :
        names \in {ColumnNames, Reverse(ColumnNames)},
        S \in SUBSET Range(ColumnNames)}
ColumnFiles == {WholeFrames([StdParams EXCEPT !.cols = cols]) : cols \in ColumnLists}

\* BOX BOUNDS rows of w[1], w[2], w[3] numbers (0 to 4) in the first frame
BoxRowsOfWidths(w, f) ==
    [a \in 1..3 |-> NumLine(SubSeq(<<a, 11 * a + f, a + f, 0>>, 1, w[a]))]
BoxFiles ==
    {LET fl == WholeFrames(StdParams) IN
     [i \in DOMAIN fl |-> IF i \in 6..8 THEN BoxRowsOfWidths(w, 1)[i - 5] ELSE fl[i]] :
        w \in [1..3 -> 0..4]}

\* a file that ends after any of its lines
PrefixFiles ==
    UNION {{SubSeq(fl, 1, k) : k \in 0..Len(fl)} :
        fl \in {WholeFrames([n |-> n, ids |-> [j \in 1..n |-> j], cols |-> LVel,
                             box |-> "ortho"]) : n \in 1..MaxAtoms}}

\* one or two blank or unrecognised lines put anywhere into a file
Insert(fl, i, L) == SubSeq(fl, 1, i) \o <<L>> \o SubSeq(fl, i + 1, Len(fl))
InsertFiles ==
    LET fl == WholeFrames(StdParams)
        extra == {BlankLine, JunkLine}
    IN  {Insert(fl, i, L) : i \in 0..Len(fl), L \in extra}
        \cup {Insert(Insert(fl, j, M), i, L) :
                 i \in 0..Len(fl), j \in 0..Len(fl), L \in extra, M \in extra}

\* the header items before ATOMS in any order, repeated or left out: the
\* i-th item of the header of frame f, with a value of its own
Block(name, i, f) ==
    IF name = "TIMESTEP"
    THEN <<ItemLine("TIMESTEP", <<>>), NumLine(<<100 * f + i>>)>>
    ELSE IF name = "NUMBER OF ATOMS"
    THEN <<ItemLine("NUMBER OF ATOMS", <<>>), NumLine(<<StdParams.n>>)>>
    ELSE <<ItemLine("BOX BOUNDS", <<"pp", "pp", "pp">>)>> \o BoxRows("tri", 3 * f + i)
RECURSIVE Blocks(_, _, _)
Blocks(names, i, f) ==
    IF i > Len(names) THEN <<>>
    ELSE Block(names[i], i, f) \o Blocks(names, i + 1, f)
FrameOfBlocks(names, f) ==
    Blocks(names, 1, f) \o <<ItemLine("ATOMS", StdParams.cols)>> \o AtomLines(StdParams, f)
BlockSeqs == UNION {[1..k -> {"TIMESTEP", "NUMBER OF ATOMS", "BOX BOUNDS"}] : k \in 0..4}
HeaderFiles ==
    {FrameOfBlocks(names, 1) \o FrameLines(StdParams, "up", 2) : names \in BlockSeqs}
    \cup {FrameLines(StdParams, "up", 1) \o FrameOfBlocks(names, 2) : names \in BlockSeqs}

FormatInputs ==
    {[cfg |-> DefaultConfig, lines |-> l] :
        l \in ColumnFiles \cup BoxFiles \cup PrefixFiles \cup InsertFiles \cup HeaderFiles}

\* ---------------------------------------------------------------------
\* State
\* ---------------------------------------------------------------------
\* self:     the fields of the reader object
\* fh:       self._fh: the lines of the file, the number of lines read, and
\*           whether the handle is closed
\* outcome:  the last call the caller made (op), what it received, and the
\*           number of lines that had been read when it was made (from)
\* returned: for every frame next() has returned so far, the frame, the
\*           positions of the file before and after the call, the column
\*           list of its header, the index array I it was stored with, the
\*           reader's layout choices and the value of maps after the call
\* stops:    how often next() has raised StopIteration, counted up to 2
\* late_close: close() has been called after a StopIteration
\* failed:   some call of next() has raised another exception
\* closes:   who executed self._fh.close() on the open handle, in order
\* maps:     how often an index array I was computed (lines 140, 160)
VARIABLES self, fh, outcome, returned, stops, late_close, failed, closes, maps

vars == <<self, fh, outcome, returned, stops, late_close, failed, closes, maps>>

\* the column layout choices of the reader (lines 111-134)
Layout(r) == [x_I |-> r._x_I, x_map |-> r._x_map, id_I |-> r._id_I,
              v_I |-> r._v_I, type_I |-> r._type_I]

\* __init__ (lines 34-50). The fields _natoms .. _v do not exist until
\* _get_first assigns them; no code path reads one before that, and they
\* hold 0 or None here.
NewReader(cfg) ==
    [_open |-> TRUE, _first_called |-> FALSE, _index |-> 1,
     x_factor |-> cfg.x_factor, t_factor |-> cfg.t_factor,
     v_factor |-> RatDiv(cfg.x_factor, cfg.t_factor),
     _natoms |-> 0, _step |-> 0, _cols |-> <<>>, _box |-> None,
     _x_map |-> None, _x_I |-> None, _id_I |-> 0, _v_I |-> None, _type_I |-> 0,
     _x |-> None, _v |-> None]

\* the reader constructed on the file of `in` with the factors of `in`
InitWith(in) ==
    /\ self = NewReader(in.cfg)
    /\ fh = [lines |-> in.lines, pos |-> 0, closed |-> FALSE]
    /\ outcome = [op |-> "init", kind |-> "ok", frame |-> NoFrame, from |-> 0]
    /\ returned = <<>>
    /\ stops = 0
    /\ late_close = FALSE
    /\ failed = FALSE
    /\ closes = <<>>
    /\ maps = 0

Init == \E in \in Inputs : InitWith(in)

\* a reader on a file that varies one part of the format
InitFormat == \E in \in FormatInputs : InitWith(in)

\* the caller calls next()
NextCall ==
    \E r \in NextResults(self, fh) :
        /\ self' = r.self
        /\ fh' = r.fh
        /\ outcome' = [op |-> "next", kind |-> r.kind, frame |-> r.frame,
                       from |-> fh.pos]
        /\ returned' = IF r.kind = "frame"
                       THEN Append(returned, [frame |-> r.frame, from |-> fh.pos,
                                              to |-> r.fh.pos, cols |-> r.self._cols,
                                              I |-> r.I, layout |-> Layout(r.self),
                                              maps |-> maps + 1])
                       ELSE returned
        /\ stops' = IF r.kind = "StopIteration" /\ stops < 2 THEN stops + 1 ELSE stops
        /\ late_close' = late_close
        /\ failed' = (failed \/ r.kind \notin {"frame", "StopIteration"})
        /\ closes' = IF r.closes = 1 THEN Append(closes, "reader") ELSE closes
        /\ maps' = IF r.I # None THEN maps + 1 ELSE maps

\* the caller calls close()
CloseCall ==
    LET c == CloseResult(fh) IN
        /\ fh' = c.fh
        /\ outcome' = [op |-> "close", kind |-> "ok", frame |-> NoFrame,
                       from |-> fh.pos]
        /\ closes' = IF c.closes = 1 THEN Append(closes, "caller") ELSE closes
        /\ late_close' = (late_close \/ stops > 0)
        /\ UNCHANGED <<self, returned, stops, failed, maps>>

Next == NextCall \/ CloseCall

Spec == Init /\ [][Next]_vars

\* the same reader and caller on the files of FormatInputs
SpecFormat == InitFormat /\ [][Next]_vars

\* =====================================================================
\* The backends and the molfile reader (molfile_trajectory_reader,
\* molfile_plugin, xtc_trajectory_reader.reader_available and __init__)
\* =====================================================================
\* Under SpecMolfile the variables hold another reader:
\*   self     the molfile_trajectory_reader object, NoReader until a
\*            construction has succeeded
\*   fh       the native side: the host and the plugin (env), the function
\*            table self._mfp.plugin ("none", "live", "zeroed"), the handle
\*            of open_file_read, the timesteps the plugin has delivered and
\*            the library calls made so far, in order (calls)
\*   closes   who called vmdplugin_fini, in order
\*   failed   some call raised an exception other than StopIteration
\*   outcome, returned, stops, late_close as before; maps stays 0.

\* the largest number of calls of vmdplugin_fini that is followed
MaxFini == 3

Backends == {"lammpstrj", "molfile", "xtc"}

\* A host: the operating system and word size of the Python build,
\* whether a VMD directory is found (_vmddir, lines 402-416), whether the
\* plugin file exists in it, whether find_library('gromacs') finds libgmx.
Hosts ==
    [system : {"Linux", "Darwin", "Windows", "SunOS"}, bits64 : BOOLEAN,
     vmddir : BOOLEAN, plugin_file : BOOLEAN, libgmx : BOOLEAN]
GoodHost ==
    [system |-> "Linux", bits64 |-> TRUE, vmddir |-> TRUE, plugin_file |-> TRUE,
     libgmx |-> TRUE]

\* A plugin and its file: whether the suffix names a plugin, how
\* vmdplugin_init and vmdplugin_register end, whether the file opens, which
\* functions the plugin offers and what they return, the atoms N and the
\* timesteps K of the file.
Plugins ==
    [suffix_known : BOOLEAN, library : {"ok", "init_fails", "register_fails"},
     open_ok : BOOLEAN,
     offers_structure : BOOLEAN, structure_rc : {0, -1},
     offers_metadata : BOOLEAN, metadata_rc : {0, -1}, has_velocities : BOOLEAN,
     offers_next : BOOLEAN, N : 1..MaxAtoms, K : 0..MaxFrames]
GoodPlugin ==
    [suffix_known |-> TRUE, library |-> "ok", open_ok |-> TRUE,
     offers_structure |-> TRUE, structure_rc |-> 0,
     offers_metadata |-> TRUE, metadata_rc |-> 0, has_velocities |-> TRUE,
     offers_next |-> TRUE, N |-> MaxAtoms, K |-> MaxFrames]

\* the environments explored: every host with the good plugin, and on the
\* good host every plugin that loads, with a known suffix
Environments ==
    {[host |-> h, plugin |-> GoodPlugin] : h \in Hosts}
    \cup {[host |-> GoodHost, plugin |-> pl] :
            pl \in {q \in Plugins : q.suffix_known /\ q.library = "ok"}}
    \cup {[host |-> GoodHost, plugin |-> [GoodPlugin EXCEPT !.suffix_known = k, !.library = l]] :
            k \in BOOLEAN, l \in {"ok", "init_fails", "register_fails"}}

\* molfile_plugin_dir (lines 370-399): "none" without a VMD directory, the
\* directory when _molfile_machine_specific_plugin_dir_name knows the
\* platform, and its RuntimeError otherwise
MolfilePluginDir(host) ==
    IF ~host.vmddir THEN "none"
    ELSE IF host.system = "Linux" THEN "dir"
    ELSE IF ~host.bits64 /\ host.system \in {"Darwin", "Windows"} THEN "dir"
    ELSE "RuntimeError"

\* molfile_plugin_path (lines 363-368): os.path.join(None, ..) raises
\* AttributeError; a path that does not exist gives None ("none")
MolfilePluginPath(host) ==
    LET dir == MolfilePluginDir(host) IN
    IF dir = "RuntimeError" THEN "RuntimeError"
    ELSE IF dir = "none" THEN "AttributeError"
    ELSE IF host.plugin_file THEN "path" ELSE "none"

\* reader_available of each backend: TRUE, FALSE, or the exception raised
\* (lammpstrj line 32, molfile line 45, xtc line 81)
ReaderAvailable(b, host) ==
    IF b = "lammpstrj" THEN "True"
    ELSE IF b = "xtc" THEN "False"
    ELSE IF MolfilePluginDir(host) = "RuntimeError" THEN "RuntimeError"
    ELSE IF MolfilePluginDir(host) # "none" THEN "True" ELSE "False"

\* one library call in fh.calls: the return code, and for
\* read_next_timestep the velocity pointer of the timestep structure
LibCall(name, rc, vel) == [name |-> name, rc |-> rc, vel |-> vel]

\* _MolfilePlugin.__init__ (lines 316-329): "" or the exception, and the
\* calls made. LoadLibrary(None) gives the running program, which has no
\* vmdplugin_init, so _load_plugin_library raises AttributeError.
LoadPlugin(env) ==
    LET path == MolfilePluginPath(env.host) IN
    IF path \in {"RuntimeError", "AttributeError"} THEN [exc |-> path, calls |-> <<>>]
    ELSE IF path = "none" THEN [exc |-> "AttributeError", calls |-> <<>>]
    ELSE IF env.plugin.library = "init_fails"
    THEN [exc |-> "RuntimeError", calls |-> <<LibCall("vmdplugin_init", -1, "")>>]
    ELSE IF env.plugin.library = "register_fails"
    THEN [exc |-> "RuntimeError",
          calls |-> <<LibCall("vmdplugin_init", 0, ""), LibCall("vmdplugin_register", -1, "")>>]
    ELSE [exc |-> "",
          calls |-> <<LibCall("vmdplugin_init", 0, ""), LibCall("vmdplugin_register", 0, "")>>]

NoReader == [kind |-> "none"]
NoNative(env) == [env |-> env, plugin |-> "none", handle |-> "none", t |-> 0, calls |-> <<>>]

\* a variant of StructureFails that takes every return code for success
StructureFails_Never(rc) == FALSE

\* `if rc:` after read_structure (line 85)
StructureFails(rc) == rc # 0

\* a variant of VelocityBuffer that allocates whenever the plugin is asked
VelocityBuffer_WhenAsked(pl) ==
    IF pl.offers_metadata THEN Zeros(pl.N) ELSE None

\* self._v as lines 91 and 96-110 leave it when no call fails
VelocityBuffer(pl) ==
    IF pl.offers_metadata /\ pl.has_velocities THEN Zeros(pl.N) ELSE None

\* molfile_trajectory_reader.__init__ (lines 53-122): the exception ("" when
\* the reader is constructed), the reader and the native side after it
MolInit(env, cfg) ==
    LET pl == env.plugin
        lp == LoadPlugin(env)
        raise(exc, f) == [exc |-> exc, self |-> NoReader, fh |-> f]
        f0 == NoNative(env)
        f1 == [f0 EXCEPT !.plugin = "live", !.calls = lp.calls]
        f2 == [f1 EXCEPT !.calls = Append(@, LibCall("open_file_read",
                                                     IF pl.open_ok THEN 0 ELSE -1, "")),
                         !.handle = IF pl.open_ok THEN "open" ELSE "none"]
        f3 == IF pl.offers_structure
              THEN [f2 EXCEPT !.calls = Append(@, LibCall("read_structure", pl.structure_rc, ""))]
              ELSE f2
        f4 == IF pl.offers_metadata
              THEN [f3 EXCEPT !.calls = Append(@, LibCall("read_timestep_metadata",
                                                         pl.metadata_rc, ""))]
              ELSE f3
        v  == VelocityBuffer(pl)
    IN  IF ~pl.suffix_known THEN raise("RuntimeError", f0)
        ELSE IF lp.exc # "" THEN raise(lp.exc, [f0 EXCEPT !.calls = lp.calls])
        ELSE IF ~pl.open_ok THEN raise("RuntimeError", f2)
        ELSE IF pl.offers_structure /\ StructureFails(pl.structure_rc) THEN raise("IOError", f3)
        ELSE IF pl.offers_metadata /\ pl.metadata_rc # 0 THEN raise("IOError", f4)
        ELSE [exc |-> "",
              self |-> [kind |-> "molfile",
                        x_factor |-> cfg.x_factor, t_factor |-> cfg.t_factor,
                        v_factor |-> RatDiv(cfg.x_factor, cfg.t_factor),
                        _N |-> pl.N,
                        _atoms_arr |-> IF pl.offers_structure THEN "array" ELSE "None",
                        _timestep_metadata |-> IF pl.offers_metadata THEN "tsm" ELSE "None",
                        _x |-> Zeros(pl.N), _v |-> v,
                        _ts |-> [velocities |-> IF v # None THEN "buffer" ELSE "null"],
                        _index |-> 1],
              fh |-> f4]

\* xtc_trajectory_reader.__init__ (lines 84-90) and the open() of the
\* LAMMPS reader (line 42): the exception, "" when the reader is constructed
XtcInitError(env) ==
    IF ~env.host.libgmx THEN "RuntimeError"
    ELSE IF ~env.plugin.open_ok THEN "IOError"
    ELSE ""
LammpsInitError(env) == IF ~env.plugin.open_ok THEN "IOError" ELSE ""

\* what the plugin writes for timestep t: coordinates and velocities of N
\* atoms, the time, and a cell with right angles
PluginCoords(t, N) == [c \in 1..N |-> [i \in 1..3 |-> 100 * t + 10 * c + i]]
PluginVelocities(t, N) == [c \in 1..N |-> [i \in 1..3 |-> 100 * t + 10 * c + i + 3]]
PluginTimestep(t) == [physical_time |-> 5 * t, A |-> 10 + t, B |-> 20 + t, C |-> 30 + t]

\* _to_box (lines 156-161) for alpha = beta = gamma = 90 degrees, with the
\* cosine taken as exactly 0
ToBox(ts) == << <<ts.A, 0, 0>>, <<0, ts.B, 0>>, <<0, 0, ts.C>> >>

\* a variant of PluginClose that leaves the function table in place
PluginClose_KeepTable(f) ==
    [f EXCEPT !.calls = Append(@, LibCall("vmdplugin_fini", 0, ""))]

\* _MolfilePlugin.close (lines 331-333): the function table is replaced
\* by an empty one and vmdplugin_fini is called
PluginClose(f) ==
    [f EXCEPT !.plugin = "zeroed", !.calls = Append(@, LibCall("vmdplugin_fini", 0, ""))]

\* molfile_trajectory_reader.next (lines 127-150)
MolNextResult(r, f) ==
    LET pl == f.env.plugin IN
    IF f.plugin # "live" \/ ~pl.offers_next
    THEN [self |-> r, fh |-> f, kind |-> "StopIteration", frame |-> NoFrame, closes |-> 0]
    ELSE
    LET t  == f.t + 1
        rc == IF t <= pl.K THEN 0 ELSE -1
        g  == [f EXCEPT !.calls = Append(@, LibCall("read_next_timestep", rc,
                                                    r._ts.velocities))]
    IN  IF rc # 0
        THEN [self |-> r, fh |-> PluginClose(g), kind |-> "StopIteration",
              frame |-> NoFrame, closes |-> 1]
        ELSE
        LET r1 == [r EXCEPT !._x = PluginCoords(t, r._N),
                            !._v = IF r._ts.velocities = "buffer"
                                   THEN PluginVelocities(t, r._N) ELSE @]
            ts == PluginTimestep(t)
        IN  [self |-> [r1 EXCEPT !._index = @ + 1],
             fh |-> [g EXCEPT !.t = t],
             kind |-> "frame",
             frame |-> [index |-> r1._index,
                        N     |-> r1._N,
                        box   |-> ScaleArray(r1.x_factor, ToBox(ts)),
                        time  |-> Times(r1.t_factor, ts.physical_time),
                        x     |-> ScaleArray(r1.x_factor, r1._x),
                        v     |-> IF r1._v # None THEN ScaleArray(r1.v_factor, r1._v)
                                  ELSE None],
             closes |-> 0]

InitMolfile ==
    \E env \in Environments :
        /\ self = NoReader
        /\ fh = NoNative(env)
        /\ outcome = [op |-> "init", kind |-> "ok", frame |-> NoFrame, from |-> 0]
        /\ returned = <<>>
        /\ stops = 0
        /\ late_close = FALSE
        /\ failed = FALSE
        /\ closes = <<>>
        /\ maps = 0

\* the caller asks reader_available() of a backend and constructs a
\* reader of it; a molfile reader that is constructed is kept
Construct ==
    /\ self = NoReader
    /\ outcome.op = "init"
    /\ \E b \in Backends :
          LET m == MolInit(fh.env, DefaultConfig)
              exc == IF b = "molfile" THEN m.exc
                     ELSE IF b = "xtc" THEN XtcInitError(fh.env)
                     ELSE LammpsInitError(fh.env)
          IN  /\ outcome' = [op |-> "construct", kind |-> IF exc = "" THEN "ok" ELSE exc,
                             frame |-> NoFrame, from |-> 0, backend |-> b,
                             available |-> ReaderAvailable(b, fh.env.host)]
              /\ self' = IF b = "molfile" THEN m.self ELSE self
              /\ fh' = IF b = "molfile" THEN m.fh ELSE fh
              /\ failed' = (exc # "")
    /\ UNCHANGED <<returned, stops, late_close, closes, maps>>

\* the caller calls next() of the molfile reader
MolNextCall ==
    /\ self # NoReader
    /\ LET r == MolNextResult(self, fh) IN
       /\ self' = r.self
       /\ fh' = r.fh
       /\ outcome' = [op |-> "next", kind |-> r.kind, frame |-> r.frame, from |-> fh.t]
       /\ returned' = IF r.kind = "frame"
                      THEN Append(returned, [frame |-> r.frame, from |-> fh.t, to |-> r.fh.t])
                      ELSE returned
       /\ stops' = IF r.kind = "StopIteration" /\ stops < 2 THEN stops + 1 ELSE stops
       /\ closes' = IF r.closes = 1 THEN Append(closes, "reader") ELSE closes
    /\ UNCHANGED <<late_close, failed, maps>>

\* the caller calls close() of the molfile reader (lines 152-153)
MolCloseCall ==
    /\ self # NoReader
    /\ Len(closes) < MaxFini
    /\ fh' = PluginClose(fh)
    /\ outcome' = [op |-> "close", kind |-> "ok", frame |-> NoFrame, from |-> fh.t]
    /\ closes' = Append(closes, "caller")
    /\ late_close' = (late_close \/ stops > 0)
    /\ UNCHANGED <<self, returned, stops, failed, maps>>

NextMolfile == Construct \/ MolNextCall \/ MolCloseCall

SpecMolfile == InitMolfile /\ [][NextMolfile]_vars

\* ---------------------------------------------------------------------
\* What a returned dict holds (lammpstrj lines 184-197, molfile lines
\* 137-150)
\* ---------------------------------------------------------------------
\* For every entry of the dict, the object it is bound to: "new" for an
\* object made for this dict (the array a product or copy() returns, an int
\* or a float), or the name of the buffer of the reader that the entry is.

\* the dict of the LAMMPS reader: index is a number of the counter, N an
\* int(), box the product of a factor and a copy, time, x and v products
FrameFields ==
    [index |-> "new", N |-> "new", box |-> "new", time |-> "new",
     x |-> "new", v |-> "new"]

\* a variant of MolFrameFields that hands out the buffers the plugin fills
MolFrameFields_Buffers ==
    [index |-> "new", N |-> "new", box |-> "new", time |-> "new",
     x |-> "_x", v |-> "_v"]

\* the dict of the molfile reader: box, time, x and v are products, N is
\* the value of a c_int
MolFrameFields ==
    [index |-> "new", N |-> "new", box |-> "new", time |-> "new",
     x |-> "new", v |-> "new"]

\* the reader at hand is the molfile reader (or none is constructed yet)
IsMolfile == "kind" \in DOMAIN self

\* both readers: a LAMMPS reader of a file, or a molfile reader of a plugin
InitFrames == Init \/ InitMolfile
NextFrames == (~IsMolfile /\ Next) \/ (IsMolfile /\ NextMolfile)
SpecFrames == InitFrames /\ [][NextFrames]_vars

\* ---------------------------------------------------------------------
\* The XTC reader (xtc_trajectory_reader lines 84-160)
\* ---------------------------------------------------------------------
\* Under SpecXtc self is the xtc_trajectory_reader object after a
\* construction that succeeded, and fh is libgmx and the file: the frames K
\* and atoms N of the file, the frame libgmx finds corrupt (0 for none),
\* the handle of open_xtc, the frames delivered and the calls made.

\* the largest number of next() calls that is followed
MaxCalls == 3

XtcFiles == [K : 0..MaxFrames, N : 1..MaxAtoms, corrupt : 0..MaxFrames]

\* __init__ (lines 84-102) when libgmx is found and the file opens
NewXtcReader ==
    [kind |-> "xtc", _index |-> 1, _natoms |-> 0, _step |-> 0, _time |-> 0,
     _box |-> Zeros(3), _x |-> None, _bOK |-> 0, _open |-> TRUE,
     _first_called |-> FALSE]

XtcOutcome(r, f, kind, path, closed) ==
    [self |-> r, fh |-> f, kind |-> kind, path |-> path, closes |-> closed]

\* what libgmx writes through its pointers when it reads frame t
XtcRead(r, f, t) ==
    [r EXCEPT !._natoms = f.env.N, !._step = 10 * t, !._time = 5 * t,
              !._box = ToBox(PluginTimestep(t)),
              !._bOK = IF t = f.env.corrupt THEN 0 ELSE 1]

\* _get_first (lines 104-120): _first_called is set as soon as
\* read_first_xtc has returned; `array` at line 118 is no name of the
\* module (numpy is imported as np only), so the line raises NameError
\* and _x stays None
XtcGetFirst(r, f) ==
    LET res == IF f.env.K >= 1 THEN 1 ELSE 0
        g   == [f EXCEPT !.calls = Append(@, LibCall("read_first_xtc", res, "")),
                         !.t = IF res = 1 THEN 1 ELSE @]
        r1  == [(IF res = 1 THEN XtcRead(r, f, 1) ELSE r) EXCEPT !._first_called = TRUE]
    IN  IF res = 0 THEN XtcOutcome(r1, g, "IOError", "first", 0)
        ELSE IF r1._bOK = 0 THEN XtcOutcome(r1, g, "IOError", "first", 0)
        ELSE XtcOutcome(r1, g, "NameError", "first", 0)

\* close (lines 137-140)
XtcClose(r, f) ==
    IF r._open
    THEN [self |-> [r EXCEPT !._open = FALSE],
          fh |-> [f EXCEPT !.calls = Append(@, LibCall("close_xtc", 0, "")),
                           !.handle = "closed"],
          closes |-> 1]
    ELSE [self |-> r, fh |-> f, closes |-> 0]

\* _get_next (lines 122-132) and the branch of next() that calls it (lines
\* 146-149). The argument type of x is an ndpointer, which refuses None:
\* with _x = None the call raises ArgumentError before libgmx is entered
\* (logged with "refused" in place of a pointer).
XtcGetNext(r, f) ==
    IF r._x = None
    THEN XtcOutcome(r, [f EXCEPT !.calls = Append(@, LibCall("read_next_xtc",
                                                             0, "refused"))],
                    "ArgumentError", "next", 0)
    ELSE
    LET t   == f.t + 1
        res == IF t <= f.env.K THEN 1 ELSE 0
        g   == [f EXCEPT !.calls = Append(@, LibCall("read_next_xtc", res, "")),
                         !.t = IF res = 1 THEN t ELSE @]
    IN  IF res = 0
        THEN LET c == XtcClose(r, g) IN
             XtcOutcome(c.self, c.fh, "StopIteration", "next", c.closes)
        ELSE LET r1 == [XtcRead(r, f, t) EXCEPT !._x = PluginCoords(t, f.env.N)] IN
             IF r1._bOK = 0 THEN XtcOutcome(r1, g, "IOError", "next", 0)
             ELSE XtcOutcome(r1, g, "frame", "next", 0)

\* next (lines 142-160)
XtcNextResult(r, f) ==
    IF ~r._open THEN XtcOutcome(r, f, "StopIteration", "closed", 0)
    ELSE IF r._first_called THEN XtcGetNext(r, f)
    ELSE XtcGetFirst(r, f)

\* the dict of next(): x is the buffer itself, box a copy
XtcFrame(r) ==
    [index |-> r._index, N |-> r._natoms, box |-> r._box, time |-> r._time,
     x |-> r._x, v |-> None]

InitXtc ==
    \E file \in XtcFiles :
        /\ self = NewXtcReader
        /\ fh = [env |-> file, handle |-> "open", t |-> 0,
                 calls |-> <<LibCall("open_xtc", 0, "")>>]
        /\ outcome = [op |-> "init", kind |-> "ok", frame |-> NoFrame, from |-> 0,
                      path |-> "", nexts |-> 0]
        /\ returned = <<>>
        /\ stops = 0
        /\ late_close = FALSE
        /\ failed = FALSE
        /\ closes = <<>>
        /\ maps = 0

\* the caller calls next() of the XTC reader
XtcNextCall ==
    /\ outcome.nexts < MaxCalls
    /\ LET r == XtcNextResult(self, fh)
           fr == IF r.kind = "frame" THEN XtcFrame(r.self) ELSE NoFrame
       IN
       /\ self' = IF r.kind = "frame" THEN [r.self EXCEPT !._index = @ + 1] ELSE r.self
       /\ fh' = r.fh
       /\ outcome' = [op |-> "next", kind |-> r.kind, frame |-> fr, from |-> fh.t,
                      path |-> r.path, nexts |-> outcome.nexts + 1]
       /\ returned' = IF r.kind = "frame"
                      THEN Append(returned, [frame |-> fr, from |-> fh.t, to |-> r.fh.t])
                      ELSE returned
       /\ stops' = IF r.kind = "StopIteration" /\ stops < 2 THEN stops + 1 ELSE stops
       /\ failed' = (failed \/ r.kind \notin {"frame", "StopIteration"})
       /\ closes' = IF r.closes = 1 THEN Append(closes, "reader") ELSE closes
    /\ UNCHANGED <<late_close, maps>>

\* the caller calls close() of the XTC reader
XtcCloseCall ==
    /\ LET c == XtcClose(self, fh) IN
       /\ self' = c.self
       /\ fh' = c.fh
       /\ closes' = IF c.closes = 1 THEN Append(closes, "caller") ELSE closes
    /\ outcome' = [op |-> "close", kind |-> "ok", frame |-> NoFrame, from |-> fh.t,
                   path |-> "", nexts |-> outcome.nexts]
    /\ late_close' = (late_close \/ stops > 0)
    /\ UNCHANGED <<returned, stops, failed, maps>>

NextXtc == XtcNextCall \/ XtcCloseCall

SpecXtc == InitXtc /\ [][NextXtc]_vars

\* =====================================================================
\* Properties
\* =====================================================================
IsFrame == outcome.op = "next" /\ outcome.kind = "frame"
IsStop == outcome.op = "next" /\ outcome.kind = "StopIteration"

\* C1: once next() has raised StopIteration, every later next() raises
\* StopIteration too, whatever close() calls lie in between: it returns no
\* frame and raises nothing else.
C1_ExhaustionIsFinal ==
    stops >= 1 /\ outcome.op = "next" => outcome.kind = "StopIteration"

\* a second StopIteration after a close() that followed the first
C1_Witness == stops = 2 /\ late_close /\ IsStop /\ Len(returned) >= 1

\* The text of a complete frame of n atoms under cols, starting after
\* `start` lines of the file (the layout of lines 52-63)
IsFrameAt(lines, start, n, cols) ==
    /\ start + 9 + n <= Len(lines)
    /\ LET l(i) == lines[start + i] IN
       /\ l(1).k = "item" /\ l(1).name = "TIMESTEP"
       /\ l(2).k = "nums" /\ Len(l(2).v) = 1
       /\ l(3).k = "item" /\ l(3).name = "NUMBER OF ATOMS"
       /\ l(4).k = "nums" /\ l(4).v = <<n>>
       /\ l(5).k = "item" /\ l(5).name = "BOX BOUNDS"
       /\ \E w \in {2, 3} : \A i \in 6..8 : l(i).k = "nums" /\ Len(l(i).v) = w
       /\ l(9).k = "item" /\ l(9).name = "ATOMS" /\ l(9).cols = cols
       /\ \A j \in 1..n : l(9 + j).k = "nums" /\ Len(l(9 + j).v) = Len(cols)

\* a column list with the atom identifier and one whole coordinate triple
UsableCols(cols) ==
    /\ "id" \in Range(cols)
    /\ \E t \in {{"x", "y", "z"}, {"xu", "yu", "zu"}, {"xs", "ys", "zs"}} :
          t \subseteq Range(cols)

\* K when the file is exactly K complete frames of the same n >= 1 atoms
\* and the same usable columns, and nothing else; -1 for any other file
FrameCount(lines) ==
    IF lines = <<>> THEN 0
    ELSE IF Len(lines) < 10 \/ lines[4].k # "nums" \/ Len(lines[4].v) # 1
            \/ lines[9].k # "item"
    THEN -1
    ELSE LET n == lines[4].v[1]
             cols == lines[9].cols
         IN  IF /\ n >= 1
                /\ UsableCols(cols)
                /\ Len(lines) % (9 + n) = 0
                /\ \A k \in 0..(Len(lines) \div (9 + n) - 1) :
                      IsFrameAt(lines, k * (9 + n), n, cols)
             THEN Len(lines) \div (9 + n)
             ELSE -1

CallerClosed == "caller" \in Range(closes)

C3_IndexCountsReturnedFrames ==
    /\ \A k \in DOMAIN returned : returned[k].frame.index = k
    /\ self._index = Len(returned) + 1

\* a first frame, returned after a call that failed, whose time is not 1
C3_Witness ==
    /\ failed
    /\ Len(returned) = 1
    /\ returned[1].from > 0
    /\ ~RatEq(returned[1].frame.time, <<1, 1>>)

\* C4: all frames one reader returns carry the same atom count; a later
\* frame whose header declares another NUMBER OF ATOMS makes next() fail
\* and is not returned.
C4_OneAtomCount ==
    \A i, j \in DOMAIN returned : returned[i].frame.N = returned[j].frame.N

\* C5: a later frame whose ATOMS column list differs from the first
\* frame's makes next() fail: no frame parsed under a changed column list
\* is returned.
C5_OneColumnList ==
    \A k \in DOMAIN returned : returned[k].cols = returned[1].cols

\* C6: the identifier-to-column mapping and the column layout choices are
\* computed once, by the first next() that returns a frame; no later
\* next() computes an index array again or changes the layout choices.
C6_MappingComputedOnce ==
    Len(returned) >= 1 =>
        /\ maps = returned[1].maps
        /\ Layout(self) = returned[1].layout

\* the rows of atom data that the k-th returned frame was read from, and
\* their identifiers
RowsOf(k) ==
    LET e == returned[k] IN
    [j \in 1..e.frame.N |-> fh.lines[e.to - e.frame.N + j].v]
IdsOf(k) ==
    LET rows == RowsOf(k) IN
    [j \in DOMAIN rows |-> rows[j][IndexOf(returned[k].cols, "id")]]
Distinct(ids) == \A i, j \in DOMAIN ids : i # j => ids[i] # ids[j]
RankIn(ids, j) == Cardinality({i \in DOMAIN ids : ids[i] < ids[j]})

\* C7: in the first frame, when the N identifiers are pairwise distinct,
\* the atom of data row j is stored in the column given by the rank of its
\* identifier among the sorted identifiers, whatever the order of the
\* rows: the columns used are exactly 0..N-1, and (for unscaled
\* coordinates) column r of the positions holds x_factor times the
\* coordinates of the atom of rank r.
C7_FirstFrameSortedByIdentifier ==
    Len(returned) >= 1 =>
        LET e    == returned[1]
            rows == RowsOf(1)
            ids  == IdsOf(1)
            xyz  == IF {"xu", "yu", "zu"} \subseteq Range(e.cols)
                    THEN <<"xu", "yu", "zu">> ELSE <<"x", "y", "z">>
        IN  Distinct(ids) =>
                /\ \A j \in DOMAIN ids : e.I[j] = RankIn(ids, j)
                /\ {e.I[j] : j \in DOMAIN ids} = 0..(e.frame.N - 1)
                /\ e.layout.x_map = None =>
                       \A j \in DOMAIN ids : \A i \in 1..3 :
                           RatEq(e.frame.x[RankIn(ids, j) + 1][i],
                                 Times(self.x_factor, rows[j][IndexOf(e.cols, xyz[i])]))

\* a first frame whose rows are not in the order of their identifiers and
\* whose identifiers are not 1..N
C7_Witness ==
    /\ Len(returned) >= 1
    /\ returned[1].frame.N >= 2
    /\ Distinct(IdsOf(1))
    /\ IdsOf(1)[1] > IdsOf(1)[2]
    /\ Range(IdsOf(1)) # 1..returned[1].frame.N

\* C8: close() never raises and leaves the file closed in every state it
\* can be called in, and over any sequence of next() and close() calls the
\* open file handle is closed at most once.
C8_CloseIdempotent ==
    /\ Len(closes) <= 1
    /\ (fh.closed <=> Len(closes) = 1)
    /\ (outcome.op = "close" => outcome.kind = "ok" /\ fh.closed)

\* a close() after the reader has closed the file itself, on a reader that
\* returned frames and then failed
C8_Witness ==
    /\ outcome.op = "close"
    /\ late_close
    /\ closes = <<"reader">>
    /\ failed
    /\ Len(returned) >= 1

\* C9: whenever next() raises StopIteration the file handle is closed, and
\* it was the reader, not a close() of the caller, that closed it.
C9_ExhaustionClosesFile ==
    IsStop => fh.closed /\ closes = <<"reader">>

\* the first StopIteration, with no close() call before it
C9_Witness == IsStop /\ stops = 1 /\ ~late_close /\ Len(returned) >= 1 /\ ~failed

\* C10: after a next() has failed with an error, no later next() returns a
\* frame.
C10_NoFrameAfterFailure == failed => ~IsFrame

\* ---------------------------------------------------------------------
\* The header of a frame as the file layout gives it (lines 52-63)
\* ---------------------------------------------------------------------
\* the number of lines read once the blank lines that follow the first p
\* lines are passed
RECURSIVE SkipBlank(_, _)
SkipBlank(lines, p) ==
    IF p < Len(lines) /\ lines[p + 1].k = "blank" THEN SkipBlank(lines, p + 1) ELSE p

\* line p + 1 is the ITEM line `name`; it is a line of one number; it is a
\* line of numbers, maybe of none
IsItemAt(lines, p, name) ==
    p + 1 <= Len(lines) /\ lines[p + 1].k = "item" /\ lines[p + 1].name = name
IsCountAt(lines, p) ==
    p + 1 <= Len(lines) /\ lines[p + 1].k = "nums" /\ Len(lines[p + 1].v) = 1
IsRowAt(lines, p) == p + 1 <= Len(lines) /\ lines[p + 1].k \in {"nums", "blank"}

\* The header that begins after `start` lines: TIMESTEP, NUMBER OF ATOMS,
\* BOX BOUNDS and ATOMS in this order, each after any number of blank
\* lines. ts, na, bx, at: the lines read before each ITEM line; hasT ..
\* hasA: the text is as laid out up to and including that item; boxOk:
\* the three rows of the box hold two numbers each or three numbers each.
HeaderAt(lines, start) ==
    LET ts == SkipBlank(lines, start)
        na == SkipBlank(lines, ts + 2)
        bx == SkipBlank(lines, na + 2)
        at == SkipBlank(lines, bx + 4)
        hasT == IsItemAt(lines, ts, "TIMESTEP") /\ IsCountAt(lines, ts + 1)
        hasN == hasT /\ IsItemAt(lines, na, "NUMBER OF ATOMS") /\ IsCountAt(lines, na + 1)
        hasB == hasN /\ IsItemAt(lines, bx, "BOX BOUNDS")
                     /\ \A i \in 1..3 : IsRowAt(lines, bx + i)
        boxOk == hasB /\ \E w \in {2, 3} : \A i \in 1..3 : Len(lines[bx + 1 + i].v) = w
    IN  [ts |-> ts, na |-> na, bx |-> bx, at |-> at,
         hasT |-> hasT, hasN |-> hasN, hasB |-> hasB, boxOk |-> boxOk,
         hasA |-> boxOk /\ IsItemAt(lines, at, "ATOMS")]

\* the header the last call of next() began at
LastHeader == HeaderAt(fh.lines, outcome.from)

\* C11: when the file ends after a complete header (all four items) but
\* before all N atom lines of the frame, the call of next() that reads
\* this frame raises an error: it returns no frame built from the lines
\* that are there and it does not raise StopIteration. With usable
\* columns and an open file the error is the IndexError of line 138,
\* raised when the whole file has been read.
C11_TruncatedFrameFails ==
    LET h == LastHeader
        n == fh.lines[h.na + 2].v[1]
        cols == fh.lines[h.at + 1].cols
    IN  (/\ outcome.op = "next"
         /\ h.hasA
         /\ Len(fh.lines) - (h.at + 1) < n
         /\ \A i \in (h.at + 2)..Len(fh.lines) : fh.lines[i].k = "nums")
        => /\ outcome.kind \notin {"frame", "StopIteration"}
           /\ (UsableCols(cols) /\ ~CallerClosed) =>
                  outcome.kind = "IndexError" /\ fh.pos = Len(fh.lines)

\* a second frame that has one of its two or more atom lines: next() has
\* returned the first frame and fails on the second
C11_Witness ==
    LET h == LastHeader IN
    /\ outcome.op = "next" /\ outcome.kind = "IndexError"
    /\ Len(returned) = 1
    /\ h.hasA
    /\ fh.lines[h.na + 2].v[1] >= 2
    /\ Len(fh.lines) = h.at + 2
    /\ fh.lines[h.at + 2].k = "nums"

\* C12: next() raises StopIteration only when the end of the file is met
\* with no header item of a new frame read: the call that raises it has
\* read nothing but blank lines. A file that ends after some header items
\* of a frame (after TIMESTEP or NUMBER OF ATOMS, say) and before its
\* ATOMS item does not end in StopIteration.
C12_ExhaustionOnlyBetweenFrames ==
    IsStop => \A i \in (outcome.from + 1)..Len(fh.lines) : fh.lines[i].k = "blank"

\* C13: whether frames carry velocities is fixed by the first frame the
\* reader returns: when its columns lack one of vx, vy, vz every returned
\* frame has v = None, and when they hold all three every returned frame
\* has a velocity array of N columns.
C13_VelocitiesFixedByFirstFrame ==
    \A k \in DOMAIN returned :
        IF {"vx", "vy", "vz"} \subseteq Range(returned[1].cols)
        THEN returned[k].frame.v # None /\ Len(returned[k].frame.v) = returned[k].frame.N
        ELSE returned[k].frame.v = None

\* ---------------------------------------------------------------------
\* What a returned frame was read from
\* ---------------------------------------------------------------------
\* the header of the k-th returned frame, and whether it is laid out as
\* HeaderAt says and followed at once by the N atom lines
HeaderOf(k) == HeaderAt(fh.lines, returned[k].from)
Located(k) ==
    HeaderOf(k).hasA /\ HeaderOf(k).at + 1 + returned[k].frame.N = returned[k].to

\* its TIMESTEP, its three BOX BOUNDS rows and the extents hi - lo
StepIn(k) == fh.lines[HeaderOf(k).ts + 2].v[1]
BoxRowsIn(k) == [i \in 1..3 |-> fh.lines[HeaderOf(k).bx + 1 + i].v]
Extent(k, i) == BoxRowsIn(k)[i][2] - BoxRowsIn(k)[i][1]

\* the triple the priority (xu,yu,zu) > (x,y,z) > (xs,ys,zs) gives, the
\* first of the three that is present in full; <<>> when none is
Scaled == <<"xs", "ys", "zs">>
Preferred(cols) ==
    LET whole(t) == Range(t) \subseteq Range(cols) IN
    IF whole(<<"xu", "yu", "zu">>) THEN <<"xu", "yu", "zu">>
    ELSE IF whole(<<"x", "y", "z">>) THEN <<"x", "y", "z">>
    ELSE IF whole(Scaled) THEN Scaled
    ELSE <<>>

\* component i of the number the file gives for triple t in data row j of
\* the k-th returned frame
Coordinate(k, j, t, i) == RowsOf(k)[j][IndexOf(returned[k].cols, t[i])]

\* C14: for every column list with id, the positions of a returned frame
\* are read from the columns (xu,yu,zu) when all three are present, else
\* from (x,y,z) when all three are present, else from (xs,ys,zs); a triple
\* of higher priority of which only a part is present is not used. (The
\* returned position is x_factor times the number read, times the extent
\* of the box for the scaled triple.)
C14_TriplePriority ==
    \A k \in DOMAIN returned :
        LET e == returned[k]
            t == Preferred(e.cols)
            ids == IdsOf(k)
        IN  ("id" \in Range(e.cols) /\ Located(k)) =>
                /\ t # <<>>
                /\ e.layout.x_I = [i \in 1..3 |-> IndexOf(e.cols, t[i])]
                /\ Distinct(ids) =>
                       \A j \in DOMAIN ids : \A i \in 1..3 :
                           RatEq(e.frame.x[RankIn(ids, j) + 1][i],
                                 Times(self.x_factor,
                                       Coordinate(k, j, t, i)
                                           * (IF t = Scaled THEN Extent(k, i) ELSE 1)))

\* a returned frame whose columns hold xu and yu without zu, and the two
\* other triples in full
C14_Witness ==
    /\ IsFrame
    /\ LET cols == Range(returned[Len(returned)].cols) IN
       /\ {"id", "xu", "yu", "x", "y", "z", "xs", "ys", "zs"} \subseteq cols
       /\ "zu" \notin cols

\* C15: when the column list of a frame lacks id, or holds none of the
\* three coordinate triples in full, the next() that reads the frame
\* raises the RuntimeError of line 122 as soon as it has read the ATOMS
\* line, and no frame with such a column list is ever returned.
C15_UnusableColumnsFail ==
    /\ \A k \in DOMAIN returned : UsableCols(returned[k].cols)
    /\ LET h == LastHeader IN
       (/\ outcome.op = "next"
        /\ ~CallerClosed
        /\ h.hasA
        /\ ~UsableCols(fh.lines[h.at + 1].cols))
       => outcome.kind = "RuntimeError" /\ fh.pos = h.at + 1

\* a failed first frame whose columns hold id and a part of each triple
C15_Witness ==
    LET h == LastHeader
        cols == Range(fh.lines[h.at + 1].cols)
    IN  /\ outcome.op = "next" /\ outcome.kind = "RuntimeError"
        /\ returned = <<>>
        /\ h.hasA
        /\ {"id", "x", "y", "xu", "zs"} \subseteq cols

\* the number of the frame next() has just returned, when IsFrame holds
Last == Len(returned)

\* C16: when (xs,ys,zs) is the triple chosen for a frame, every returned
\* frame, the first and the later ones, holds for each atom x_factor times
\* (fractional coordinate times the extent hi - lo, per component, of the
\* box in that frame's own header); when another triple is chosen, it
\* holds x_factor times the number read, with no such product. (Stated of
\* the frame just returned, in every state in which one has just been
\* returned.)
C16_ScaledByOwnBox ==
    IsFrame =>
        LET k == Last
            e == returned[k]
            t == Preferred(e.cols)
            ids == IdsOf(k)
        IN  (Located(k) /\ Distinct(ids)) =>
                /\ (e.layout.x_map = None <=> t # Scaled)
                /\ \A j \in DOMAIN ids : \A i \in 1..3 :
                       RatEq(e.frame.x[RankIn(ids, j) + 1][i],
                             IF t = Scaled
                             THEN Times(self.x_factor, Coordinate(k, j, t, i) * Extent(k, i))
                             ELSE Times(self.x_factor, Coordinate(k, j, t, i)))

\* a second frame of scaled coordinates whose box is not the box of the
\* first frame and is not a cube
C16_Witness ==
    /\ IsFrame
    /\ Len(returned) = 2
    /\ Preferred(returned[2].cols) = Scaled
    /\ Located(1) /\ Located(2)
    /\ \A i \in 1..3 : Extent(2, i) # Extent(1, i)
    /\ Extent(2, 1) # Extent(2, 2)

\* the box the BOX BOUNDS rows of the k-th returned frame describe, rows
\* and columns numbered from 1
RawBoxIn(k) ==
    LET r == BoxRowsIn(k)
        tilt == Len(r[1]) = 3
    IN  [i \in 1..3 |-> [j \in 1..3 |->
            IF i = j THEN r[i][2] - r[i][1]
            ELSE IF tilt /\ i = 2 /\ j = 1 THEN r[1][3]
            ELSE IF tilt /\ i = 3 /\ j = 1 THEN r[2][3]
            ELSE IF tilt /\ i = 3 /\ j = 2 THEN r[3][3]
            ELSE 0]]

\* the position the file gives for data row j of the k-th returned frame
\* before the change of units
RawPosition(k, j, i) ==
    LET t == Preferred(returned[k].cols) IN
    Coordinate(k, j, t, i) * (IF t = Scaled THEN Extent(k, i) ELSE 1)

\* the k-th returned frame holds the numbers of its text in the reader's
\* units: time, box, and the positions and velocities of every atom in
\* the column of its identifier's rank
TimeAsRead(k) ==
    RatEq(returned[k].frame.time, Times(self.t_factor, StepIn(k)))
BoxAsRead(k) ==
    \A i, j \in 1..3 :
        RatEq(returned[k].frame.box[i][j], Times(self.x_factor, RawBoxIn(k)[i][j]))
PositionsAsRead(k) ==
    LET ids == IdsOf(k) IN
    \A j \in DOMAIN ids : \A i \in 1..3 :
        RatEq(returned[k].frame.x[RankIn(ids, j) + 1][i],
              Times(self.x_factor, RawPosition(k, j, i)))
VelocitiesAsRead(k) ==
    LET ids == IdsOf(k)
        e == returned[k]
    IN  IF {"vx", "vy", "vz"} \subseteq Range(e.cols)
        THEN \A j \in DOMAIN ids : \A i \in 1..3 :
                 RatEq(e.frame.v[RankIn(ids, j) + 1][i],
                       Times(RatDiv(self.x_factor, self.t_factor),
                             Coordinate(k, j, <<"vx", "vy", "vz">>, i)))
        ELSE e.frame.v = None
FrameAsRead(k) ==
    /\ TimeAsRead(k)
    /\ BoxAsRead(k)
    /\ Distinct(IdsOf(k)) => PositionsAsRead(k) /\ VelocitiesAsRead(k)

\* C17: every returned frame has box and positions equal to the numbers
\* read times x_factor, time equal to the TIMESTEP read times t_factor,
\* and velocities (when the columns hold them) equal to the numbers read
\* times x_factor / t_factor. The factors are those given at construction
\* (0.1 and 1.0 unless given) and v_factor is their quotient throughout.
\* (The frame is the one just returned, in every state in which one has
\* just been returned.)
C17_UnitScaling ==
    /\ [x_factor |-> self.x_factor, t_factor |-> self.t_factor]
           \in {DefaultConfig, OtherConfig}
    /\ RatEq(self.v_factor, RatDiv(self.x_factor, self.t_factor))
    /\ (IsFrame /\ Located(Last)) => FrameAsRead(Last)

\* a second frame with velocities, read with factors 2 and 1/2
C17_Witness ==
    /\ IsFrame
    /\ Len(returned) = 2
    /\ Located(2)
    /\ returned[2].frame.v # None
    /\ self.x_factor = <<2, 1>> /\ self.t_factor = <<1, 2>>
    /\ StepIn(2) # 0

\* C18: the box of a returned frame has (hi - lo) of row i of BOX BOUNDS
\* at (i,i); with two numbers per row all other entries are zero; with
\* three numbers per row the third numbers of rows 1, 2, 3 are at (1,0),
\* (2,0), (2,1) (counted from 0) and the entries above the diagonal are
\* zero. The reader holds this box, and the frame holds it times
\* x_factor. (The frame is the one just returned, in every state in which
\* one has just been returned.)
C18_BoxFromBounds ==
    (IsFrame /\ Located(Last)) =>
            LET k == Last
                b == returned[k].frame.box
                r == BoxRowsIn(k)
                unit(v) == Times(self.x_factor, v)
            IN  /\ \A i \in 1..3 : RatEq(b[i][i], unit(r[i][2] - r[i][1]))
                /\ \A i, j \in 1..3 : i < j => b[i][j][1] = 0
                /\ Len(r[1]) = 2 => \A i, j \in 1..3 : i > j => b[i][j][1] = 0
                /\ Len(r[1]) = 3 =>
                       /\ RatEq(b[2][1], unit(r[1][3]))
                       /\ RatEq(b[3][1], unit(r[2][3]))
                       /\ RatEq(b[3][2], unit(r[3][3]))
                /\ self._box = RawBoxIn(k)

\* a returned frame with three tilt factors, no two alike and none zero
C18_Witness ==
    /\ IsFrame
    /\ Located(Last)
    /\ LET r == BoxRowsIn(Last) IN
       /\ Len(r[1]) = 3
       /\ Cardinality({r[1][3], r[2][3], r[3][3], 0}) = 4

\* C19: when the three BOX BOUNDS rows do not hold two numbers each or
\* three numbers each, the next() that reads them raises an error as
\* soon as it has read the three rows (IOError when the rows hold the
\* same number, four or more, of numbers; IndexError when they hold one
\* or no number each or differ in length), and no frame with such rows
\* is returned.
C19_MalformedBoxFails ==
    /\ \A k \in DOMAIN returned : HeaderOf(k).hasB => HeaderOf(k).boxOk
    /\ LET h == LastHeader
           w(i) == Len(fh.lines[h.bx + 1 + i].v)
       IN  (outcome.op = "next" /\ ~CallerClosed /\ h.hasB /\ ~h.boxOk) =>
               /\ fh.pos = h.bx + 4
               /\ outcome.kind = IF w(1) = w(2) /\ w(2) = w(3) /\ w(1) >= 4
                                 THEN "IOError" ELSE "IndexError"

\* a first frame whose rows hold two, two and three numbers
C19_Witness ==
    LET h == LastHeader IN
    /\ outcome.op = "next" /\ outcome.kind = "IndexError"
    /\ returned = <<>>
    /\ h.hasB
    /\ [i \in 1..3 |-> Len(fh.lines[h.bx + 1 + i].v)] = <<2, 2, 3>>

\* where a call of next() that began at a header h awaits an ITEM line:
\* at its start and after each item that is laid out as HeaderAt says
AwaitsItemAt(start, h) ==
    {start} \cup (IF h.hasT THEN {h.ts + 2} ELSE {})
            \cup (IF h.hasN THEN {h.na + 2} ELSE {})
            \cup (IF h.boxOk THEN {h.bx + 4} ELSE {})

\* the text after h.at + 1 lines is N >= 1 atom lines under usable columns
AtomLinesFollow(lines, h) ==
    LET n == lines[h.na + 2].v[1]
        cols == lines[h.at + 1].cols
    IN  /\ n >= 1
        /\ UsableCols(cols)
        /\ h.at + 1 + n <= Len(lines)
        /\ \A j \in 1..n : /\ lines[h.at + 1 + j].k = "nums"
                            /\ Len(lines[h.at + 1 + j].v) = Len(cols)

\* C20: blank lines, however many, before any of the four ITEM lines of a
\* header leave the frame as its text without them gives it: next()
\* returns the frame of the header and the atom lines. A line that is
\* neither blank nor one of the four ITEM lines, met where an ITEM line
\* is awaited, is not skipped: next() raises IOError when it has read it.
C20_BlankSkippedJunkFails ==
    LET h == LastHeader
        lines == fh.lines
    IN  (outcome.op = "next" /\ ~CallerClosed) =>
            /\ (h.hasA /\ AtomLinesFollow(lines, h)) =>
                   /\ IsFrame
                   /\ fh.pos = h.at + 1 + lines[h.na + 2].v[1]
                   /\ outcome.frame.N = lines[h.na + 2].v[1]
                   /\ FrameAsRead(Last)
            /\ \A q \in AwaitsItemAt(outcome.from, h) :
                   LET p == SkipBlank(lines, q) IN
                   (p < Len(lines) /\ lines[p + 1].k # "item") =>
                       outcome.kind = "IOError" /\ fh.pos = p + 1

\* the second frame, returned from a header with a blank line before its
\* first and one before its last item
C20_Witness ==
    LET h == LastHeader IN
    /\ IsFrame
    /\ Len(returned) = 2
    /\ h.hasA
    /\ h.ts > outcome.from
    /\ h.at > h.bx + 4


\* ---------------------------------------------------------------------
\* The backends and the molfile reader (SpecMolfile)
\* ---------------------------------------------------------------------

\* what a reader of backend b needs of the host to be constructed: nothing
\* for the text reader, the plugin file in a VMD plugin directory of a
\* known platform for molfile, libgmx for XTC
Prerequisite(b, host) ==
    IF b = "lammpstrj" THEN TRUE
    ELSE IF b = "xtc" THEN host.libgmx
    ELSE MolfilePluginPath(host) = "path"

Constructed == outcome.op = "construct"

\* C21: reader_available() of a backend is true exactly when the backend's
\* prerequisite is present on the host, and for a file that can be read the
\* construction of a reader fails exactly when reader_available() is false.
C21_AvailableIffPrerequisite ==
    Constructed =>
        /\ (outcome.available = "True") <=> Prerequisite(outcome.backend, fh.env.host)
        /\ fh.env.plugin = GoodPlugin =>
               ((outcome.kind # "ok") <=> (outcome.available = "False"))

CallsOf(name) == {i \in 1..Len(fh.calls) : fh.calls[i].name = name}
CallCount(name) == Cardinality(CallsOf(name))

\* C22: a plugin that offers read_structure has it called exactly once, in
\* the constructor and before every read_next_timestep; when it returns a
\* failure code there is no reader (IOError) and read_next_timestep is
\* never called.
C22_StructureReadOnceFirst ==
    /\ (self # NoReader /\ fh.env.plugin.offers_structure) =>
           /\ CallCount("read_structure") = 1
           /\ \A i \in CallsOf("read_structure"), j \in CallsOf("read_next_timestep") : i < j
    /\ (self # NoReader /\ ~fh.env.plugin.offers_structure) =>
           CallCount("read_structure") = 0
    /\ \A i \in CallsOf("read_structure") :
           fh.calls[i].rc # 0 =>
               /\ self = NoReader
               /\ outcome.kind = "IOError"
               /\ CallCount("read_next_timestep") = 0
               /\ returned = <<>>

\* read_structure succeeded and two timesteps were read after it
C22_Witness ==
    /\ self # NoReader
    /\ CallCount("read_structure") = 1
    /\ CallCount("read_next_timestep") >= 2
    /\ Len(returned) >= 1

ReportsVelocities == fh.env.plugin.offers_metadata /\ fh.env.plugin.has_velocities

\* C23: the reader has a velocity buffer, and hands it to every
\* read_next_timestep, exactly when the plugin offers
\* read_timestep_metadata and it reports velocities; otherwise the plugin is
\* handed a null velocity pointer and every returned frame has v = None.
C23_VelocityBufferIffReported ==
    self # NoReader =>
        /\ (self._v # None) <=> ReportsVelocities
        /\ \A i \in CallsOf("read_next_timestep") :
               fh.calls[i].vel = (IF ReportsVelocities THEN "buffer" ELSE "null")
        /\ \A k \in 1..Len(returned) :
               (returned[k].frame.v = None) <=> ~ReportsVelocities
        /\ ~fh.env.plugin.offers_metadata =>
               /\ self._timestep_metadata = "None"
               /\ \A k \in 1..Len(returned) : returned[k].frame.v = None

\* a frame without velocities from a plugin that offers
\* read_timestep_metadata, which reported none
C23_Witness ==
    /\ self # NoReader
    /\ fh.env.plugin.offers_metadata
    /\ ~fh.env.plugin.has_velocities
    /\ Len(returned) >= 1
    /\ returned[1].frame.v = None
    /\ fh.calls[Len(fh.calls)].name = "read_next_timestep"
    /\ fh.calls[Len(fh.calls)].vel = "null"

FailedReads == {i \in CallsOf("read_next_timestep") : fh.calls[i].rc # 0}

\* C24: when read_next_timestep returns a failure code, next() closes the
\* plugin and raises StopIteration, no call raises an error, and no later
\* next() calls read_next_timestep again: each raises StopIteration.
C24_FailedReadIsExhaustion ==
    \A i \in FailedReads :
        /\ i < Len(fh.calls)
        /\ fh.calls[i + 1].name = "vmdplugin_fini"
        /\ fh.plugin = "zeroed"
        /\ \A j \in CallsOf("read_next_timestep") : j <= i
        /\ stops >= 1
        /\ ~failed
        /\ outcome.op = "next" => IsStop

\* after a frame, a failed read and a second next() that raised too
C24_Witness ==
    /\ FailedReads # {}
    /\ Len(returned) >= 1
    /\ stops = 2
    /\ outcome.op = "next"
    /\ closes = <<"reader">>

\* C25: over any sequence of next() and close() calls vmdplugin_fini is
\* called at most once.
C25_FiniAtMostOnce == CallCount("vmdplugin_fini") <= 1

\* C26: once close() has returned, or the reader has closed itself on
\* exhaustion, the handle of open_file_read has been released through
\* close_file_read, exactly once.
C26_HandleReleasedOnce ==
    closes # <<>> =>
        /\ CallCount("close_file_read") = 1
        /\ fh.handle = "released"


\* ---------------------------------------------------------------------
\* The LAMMPS reader: later frames, header order, the _open flag
\* ---------------------------------------------------------------------

\* C27: in the second and every later returned frame each atom line is
\* stored in the buffer column (identifier - 1), without sorting, while the
\* first frame stores it at the rank of its identifier.
C27_LaterFramesByIdentifier ==
    /\ Len(returned) >= 1 =>
           (Distinct(IdsOf(1)) =>
               \A j \in DOMAIN IdsOf(1) : returned[1].I[j] = RankIn(IdsOf(1), j))
    /\ \A k \in 2..Len(returned) :
           \A j \in DOMAIN IdsOf(k) : returned[k].I[j] = IdsOf(k)[j] - 1

\* C29: _open is true only while the file handle is open, and a next()
\* made after the caller's close() raises StopIteration.
C29_OpenFlagTracksHandle ==
    /\ self._open => ~fh.closed
    /\ (outcome.op = "next" /\ CallerClosed) => IsStop

\* the ITEM lines read by the last call, in order, and their names
ItemsRead ==
    SelectSeq([i \in 1..(fh.pos - outcome.from) |-> outcome.from + i],
              LAMBDA i : i <= Len(fh.lines) /\ fh.lines[i].k = "item")
ItemNames == [i \in DOMAIN ItemsRead |-> fh.lines[ItemsRead[i]].name]
ReachedAtoms == outcome.op = "next" /\ "ATOMS" \in Range(ItemNames)
LastItem(name) ==
    ItemsRead[CHOOSE i \in DOMAIN ItemsRead :
                 /\ ItemNames[i] = name
                 /\ \A j \in DOMAIN ItemsRead : ItemNames[j] = name => j <= i]

\* C28: a frame is produced only when the items of its header arrived in
\* the order TIMESTEP, NUMBER OF ATOMS, BOX BOUNDS, ATOMS, each exactly
\* once.
C28_HeaderItemsInOrder ==
    IsFrame => ItemNames = <<"TIMESTEP", "NUMBER OF ATOMS", "BOX BOUNDS", "ATOMS">>

\* C30: a call whose header reaches ATOMS returns a frame only when a
\* TIMESTEP, a NUMBER OF ATOMS and a BOX BOUNDS item were read during that
\* call, and the frame has the time, the atom count and the box of those
\* items; when one of them is missing the call fails (UnboundLocalError)
\* and nothing of an earlier frame is returned.
C30_HeaderValuesOfThisCall ==
    ReachedAtoms =>
        IF {"TIMESTEP", "NUMBER OF ATOMS", "BOX BOUNDS"} \subseteq Range(ItemNames)
        THEN IsFrame =>
                LET fr == outcome.frame
                    bx == LastItem("BOX BOUNDS")
                    raw == BoxMatrix([i \in 1..3 |-> fh.lines[bx + i].v])
                IN  /\ fr.N = fh.lines[LastItem("NUMBER OF ATOMS") + 1].v[1]
                    /\ RatEq(fr.time, Times(self.t_factor,
                                            fh.lines[LastItem("TIMESTEP") + 1].v[1]))
                    /\ \A i, j \in 1..3 :
                           RatEq(fr.box[i][j], Times(self.x_factor, raw[i][j]))
        ELSE /\ outcome.kind = "UnboundLocalError"
             /\ failed
             /\ ~IsFrame

\* after a first frame, a second header with TIMESTEP and BOX BOUNDS but
\* no NUMBER OF ATOMS reached ATOMS, and the call failed
C30_Witness ==
    /\ ReachedAtoms
    /\ Len(returned) = 1
    /\ Range(ItemNames) = {"TIMESTEP", "BOX BOUNDS", "ATOMS"}
    /\ outcome.kind = "UnboundLocalError"


\* ---------------------------------------------------------------------
\* Returned frames (SpecFrames)
\* ---------------------------------------------------------------------
\* What the caller finds now in entry `field` of the k-th returned dict: the
\* value it was returned with when the entry is an object of its own, and
\* otherwise the present content of the buffer it is, in the units of the
\* dict. The LAMMPS reader binds _x and _v to new arrays whenever it stores
\* a frame (maps counts the stores), so an array of an earlier store keeps
\* its content.
Present(name) ==
    IF name = "_x" THEN ScaleArray(self.x_factor, self._x)
    ELSE IF name = "_v"
    THEN IF self._v = None THEN None ELSE ScaleArray(self.v_factor, self._v)
    ELSE IF name = "_box" THEN ScaleArray(self.x_factor, self._box)
    ELSE IF name = "_step" THEN Times(self.t_factor, self._step)
    ELSE IF name = "_natoms" THEN self._natoms
    ELSE self._N
Found(k, field) ==
    LET e == returned[k]
        refs == IF IsMolfile THEN MolFrameFields ELSE FrameFields
    IN  IF refs[field] = "new" THEN e.frame[field]
        ELSE IF ~IsMolfile /\ e.maps # maps THEN e.frame[field]
        ELSE Present(refs[field])

Entered(name) == {i \in CallsOf(name) : fh.calls[i].vel # "refused"}
FirstReadFailed ==
    \A i \in CallsOf("read_first_xtc") : fh.calls[i].rc = 0 \/ self._x = None

\* C32: read_next_xtc is called only after a read_first_xtc that succeeded
\* and allocated the position buffer, so a next() made after a first read
\* that failed does not take the path of later frames; after close() or
\* exhaustion no library function is called, and close_xtc is called at
\* most once.
C32_NextOnlyAfterFirst ==
    /\ Entered("read_next_xtc") # {} =>
           /\ self._x # None
           /\ \E i \in CallsOf("read_first_xtc") : fh.calls[i].rc = 1
    /\ (outcome.op = "next" /\ outcome.path = "next") => ~FirstReadFailed
    /\ CallCount("close_xtc") <= 1
    /\ \A i \in CallsOf("close_xtc") : i = Len(fh.calls)

====
